---- MODULE Spec2Model ----
(***************************************************************************)
(* Model of the Slack / Google Calendar reminder bot.                      *)
(*                                                                         *)
(* Time is counted in whole hours since 00:00 UTC of day 0; a calendar     *)
(* date ("YYYY-MM-DD") is the number of its day.  The process is a set of  *)
(* invocations of checkCalendarAndNotify, each suspended at one of its     *)
(* awaits; one action is one run-to-completion segment of JavaScript.      *)
(* The section of part_000 alone counts time in minutes.                   *)
(***************************************************************************)
EXTENDS Integers, Sequences, FiniteSets, TLC

VARIABLES
  now,           \* the wall clock, read by new Date()
  localZone,     \* the time zone of the process ("UTC" or "LA")
  season,        \* which DST transition of TZ lies in the modelled days
  impl,          \* the source file that is running
  calendar,      \* the events held by the calendar source
  googleAuthed,  \* let googleAuthed
  remindedDay,   \* const remindedDay = new Set()
  remindedWeek,  \* const remindedWeek = new Set()
  cyc,           \* the invocations of checkCalendarAndNotify
  calls,         \* number of sendSlackReminder calls per (id, threshold)
  delivered,     \* number of successful chat.postMessage per (id, threshold)
  failedPairs,   \* the (id, threshold) whose delivery has failed at least once
  lastLog,       \* the last line written to the console
  running,       \* the process has not ended (unhandled rejection, process.exit)
  runOnce,       \* process.env.RUN_ONCE === "true"
  mainPc,        \* where main() is: "start", "awaitCycle", "scheduled", "exited"
  exitCode,      \* the argument of process.exit, Absent while the process runs
  serverStarted  \* startServer() has been called

\* the variables of main()
mainVars == <<runOnce, mainPc, exitCode, serverStarted>>

vars == <<now, localZone, season, impl, calendar, googleAuthed, remindedDay,
          remindedWeek, cyc, calls, delivered, failedPairs, lastLog, running,
          runOnce, mainPc, exitCode, serverStarted>>

(***************************************************************************)
(* Bounds of the model.                                                    *)
(***************************************************************************)
\* the clock may be advanced by this many days after the start
MaxDays == 1
\* the history counters calls and delivered stop counting here
CountCap == 2
\* number of invocations of checkCalendarAndNotify that may be suspended at once
MaxActive == 2
\* number of events the calendar may hold
MaxEvents == 2

(***************************************************************************)
(* Time, the zone TZ and the process zone.                                 *)
(***************************************************************************)
HoursPerDay == 24
\* a field that is undefined
Absent == 0 - 1
\* the day of the modelled stretch on which TZ changes its offset, at 02:00
TransitionDay == 3

\* the first day of the modelled stretch, and the last instant of the clock
FirstDay == TransitionDay - 2
ClockEnd == (FirstDay + MaxDays) * HoursPerDay + HoursPerDay - 1

Zones == {"UTC", "LA"}
Seasons == {"none", "spring", "fall"}
Impls == {"part_001", "index"}

\* America/Los_Angeles: offset before and after the transition of the season
OffsetBefore == IF season = "fall" THEN 0 - 7 ELSE 0 - 8
OffsetAfter == IF season = "spring" THEN 0 - 7 ELSE 0 - 8
\* the instant of the transition: 02:00 local time, in the offset before it
TransitionInstant == TransitionDay * HoursPerDay + 2 - OffsetBefore

tzOffset(t) == IF t < TransitionInstant THEN OffsetBefore ELSE OffsetAfter

\* Intl.DateTimeFormat("en-CA", {timeZone: TIMEZONE, ...}): the date of t in TZ
ymdInTZ(t) == (t + tzOffset(t)) \div HoursPerDay

localOffset(t) == IF localZone = "UTC" THEN 0 ELSE tzOffset(t)

\* The instant of a local wall-clock time of the process zone.  A local time
\* that is skipped or repeated at a transition is read in the offset before it.
LocalToUTC(w) ==
  IF localZone = "UTC" THEN w
  ELSE LET t1 == w - OffsetBefore
           t2 == w - OffsetAfter
       IN IF t1 >= TransitionInstant /\ t2 >= TransitionInstant THEN t2 ELSE t1

\* result.setDate(result.getDate() + days): local fields, then back to an instant
addDays(t, days) == LocalToUTC(t + localOffset(t) + days * HoursPerDay)

\* new Date("YYYY-MM-DD"): a date-only string is 00:00 UTC of that day
ParseDateOnly(d) == d * HoursPerDay

(***************************************************************************)
(* Calendar events.  An event is a record: id ("" when absent), hasStart   *)
(* (the start object is present), date and dateTime (Absent when the start *)
(* does not carry the field).                                              *)
(***************************************************************************)
Ids == {"a", "b"}
Thresholds == {"1 day", "1 week"}
Pairs == Ids \X Thresholds

AllDay(i, d) == [id |-> i, hasStart |-> TRUE, date |-> d, dateTime |-> Absent]
Timed(i, t) == [id |-> i, hasStart |-> TRUE, date |-> Absent, dateTime |-> t]
NoStart(i) == [id |-> i, hasStart |-> FALSE, date |-> Absent, dateTime |-> Absent]
EmptyStart(i) == [id |-> i, hasStart |-> TRUE, date |-> Absent, dateTime |-> Absent]

\* if (!event.id || !event.start) continue;  ...  if (!startStr) continue;
Malformed(e) ==
  \/ e.id = ""
  \/ ~e.hasStart
  \/ (e.dateTime = Absent /\ e.date = Absent)

\* event.start.date && !event.start.dateTime
IsAllDay(e) == e.date # Absent /\ e.dateTime = Absent

\* part_001: the date of an all-day event is used as it is
eventYMD_part001(e) == IF IsAllDay(e) THEN e.date ELSE ymdInTZ(e.dateTime)

\* index.js: ymdInTZ(new Date(event.start.dateTime || event.start.date))
eventYMD_index(e) ==
  ymdInTZ(IF e.dateTime # Absent THEN e.dateTime ELSE ParseDateOnly(e.date))

eventYMD(e) == IF impl = "index" THEN eventYMD_index(e) ELSE eventYMD_part001(e)

\* the calendar date of an event in TZ, as the calendar shows it
DateInTZ(e) == IF e.dateTime # Absent THEN ymdInTZ(e.dateTime) ELSE e.date

(***************************************************************************)
(* getUpcomingEvents: the window asked of events.list.                     *)
(***************************************************************************)
\* a window of seven days
LookAheadWeek == 7 * HoursPerDay

\* checkCalendarAndNotify asks for 9 * 24 * 60 minutes
LookAheadHours == 9 * HoursPerDay

\* first instant of calendar date d in TZ
StartOfDay(d) ==
  LET t1 == d * HoursPerDay - OffsetBefore
  IN IF t1 < TransitionInstant THEN t1 ELSE d * HoursPerDay - OffsetAfter

EventStart(e) == IF e.dateTime # Absent THEN e.dateTime ELSE StartOfDay(e.date)
\* a timed event lasts an hour, an all-day event until the next day begins
EventEnd(e) == IF e.dateTime # Absent THEN e.dateTime + 1 ELSE StartOfDay(e.date + 1)

\* events.list({timeMin, timeMax}): the events that end after timeMin and
\* start before timeMax; an event without a start is not filtered
InWindow(e, timeMin, timeMax) ==
  \/ ~e.hasStart
  \/ (e.dateTime = Absent /\ e.date = Absent)
  \/ (EventEnd(e) > timeMin /\ EventStart(e) < timeMax)

\* res.data.items || []
ListedEvents(t) ==
  SelectSeq(calendar, LAMBDA e : InWindow(e, t, t + LookAheadHours))

(***************************************************************************)
(* checkCalendarAndNotify.  An invocation is suspended at                  *)
(*   "authorize"  await jwtClient.authorize()                              *)
(*   "list"       await calendar.events.list(...)                          *)
(*   "sendDay"    await slack.chat.postMessage(...) of the "1 day" reminder *)
(*   "sendWeek"   the same for the "1 week" reminder                       *)
(* and "idle" is a slot that holds no invocation.                          *)
(***************************************************************************)
Slots == 1 .. MaxActive

IdleCycle ==
  [pc |-> "idle", timeMin |-> 0, events |-> <<>>, idx |-> 0,
   todayYMD |-> 0, tomorrowYMD |-> 0, weekYMD |-> 0, loopNow |-> 0]

Active(s) == cyc[s].pc # "idle"
Sending(s) == cyc[s].pc \in {"sendDay", "sendWeek"}
LabelOf(pc) == IF pc = "sendDay" THEN "1 day" ELSE "1 week"
\* the (id, threshold) of the delivery invocation s waits for
PairOf(s) == <<cyc[s].events[cyc[s].idx].id, LabelOf(cyc[s].pc)>>

Inc(f, p) == [f EXCEPT ![p] = IF @ < CountCap THEN @ + 1 ELSE @]

\* NextStop with break in place of continue at a malformed event
RECURSIVE NextStopBreak(_, _, _, _, _, _, _)
NextStopBreak(evs, i, ph, tom, wk, rd, rw) ==
  IF i > Len(evs) THEN [pc |-> "idle", idx |-> 0]
  ELSE IF Malformed(evs[i]) THEN [pc |-> "idle", idx |-> 0]
  ELSE IF ph = "day"
    THEN IF eventYMD(evs[i]) = tom /\ evs[i].id \notin rd
         THEN [pc |-> "sendDay", idx |-> i]
         ELSE NextStopBreak(evs, i, "week", tom, wk, rd, rw)
    ELSE IF eventYMD(evs[i]) = wk /\ evs[i].id \notin rw
         THEN [pc |-> "sendWeek", idx |-> i]
         ELSE NextStopBreak(evs, i + 1, "day", tom, wk, rd, rw)

\* NextStop without the tests !remindedDay.has(id) and !remindedWeek.has(id)
RECURSIVE NextStopNoLedger(_, _, _, _, _, _, _)
NextStopNoLedger(evs, i, ph, tom, wk, rd, rw) ==
  IF i > Len(evs) THEN [pc |-> "idle", idx |-> 0]
  ELSE IF Malformed(evs[i]) THEN NextStopNoLedger(evs, i + 1, "day", tom, wk, rd, rw)
  ELSE IF ph = "day"
    THEN IF eventYMD(evs[i]) = tom
         THEN [pc |-> "sendDay", idx |-> i]
         ELSE NextStopNoLedger(evs, i, "week", tom, wk, rd, rw)
    ELSE IF eventYMD(evs[i]) = wk
         THEN [pc |-> "sendWeek", idx |-> i]
         ELSE NextStopNoLedger(evs, i + 1, "day", tom, wk, rd, rw)

\* the loop with one set of ids for both thresholds
RECURSIVE NextStopOneSet(_, _, _, _, _, _, _)
NextStopOneSet(evs, i, ph, tom, wk, rd, rw) ==
  IF i > Len(evs) THEN [pc |-> "idle", idx |-> 0]
  ELSE IF Malformed(evs[i]) THEN NextStopOneSet(evs, i + 1, "day", tom, wk, rd, rw)
  ELSE IF ph = "day"
    THEN IF eventYMD(evs[i]) = tom /\ evs[i].id \notin (rd \cup rw)
         THEN [pc |-> "sendDay", idx |-> i]
         ELSE NextStopOneSet(evs, i, "week", tom, wk, rd, rw)
    ELSE IF eventYMD(evs[i]) = wk /\ evs[i].id \notin (rd \cup rw)
         THEN [pc |-> "sendWeek", idx |-> i]
         ELSE NextStopOneSet(evs, i + 1, "day", tom, wk, rd, rw)

\* The for loop over events, run from event i (at its "1 day" test when ph is
\* "day", at its "1 week" test when ph is "week") with the sets rd and rw, up
\* to the next await: the delivery it stops at, or "idle" when the loop ends.
RECURSIVE NextStop(_, _, _, _, _, _, _)
NextStop(evs, i, ph, tom, wk, rd, rw) ==
  IF i > Len(evs) THEN [pc |-> "idle", idx |-> 0]
  ELSE IF Malformed(evs[i]) THEN NextStop(evs, i + 1, "day", tom, wk, rd, rw)
  ELSE IF ph = "day"
    THEN IF eventYMD(evs[i]) = tom /\ evs[i].id \notin rd
         THEN [pc |-> "sendDay", idx |-> i]
         ELSE NextStop(evs, i, "week", tom, wk, rd, rw)
    ELSE IF eventYMD(evs[i]) = wk /\ evs[i].id \notin rw
         THEN [pc |-> "sendWeek", idx |-> i]
         ELSE NextStop(evs, i + 1, "day", tom, wk, rd, rw)

\* Invocation s runs the loop of record r from (i, ph) to its next await:
\* when it stops at a delivery, sendSlackReminder has been called.
RunLoop(s, r, i, ph, rd, rw) ==
  LET stop == NextStop(r.events, i, ph, r.tomorrowYMD, r.weekYMD, rd, rw)
  IN IF stop.pc = "idle"
     THEN /\ cyc' = [cyc EXCEPT ![s] = IdleCycle]
          /\ calls' = calls
     ELSE /\ cyc' = [cyc EXCEPT ![s] = [r EXCEPT !.pc = stop.pc, !.idx = stop.idx]]
          /\ calls' = Inc(calls, <<r.events[stop.idx].id, LabelOf(stop.pc)>>)

\* an error that leaves checkCalendarAndNotify: the promise rejects, nothing
\* handles the rejection and the process ends
Rethrown(s) ==
  /\ cyc' = [cyc EXCEPT ![s] = IdleCycle]
  /\ lastLog' = "error"
  /\ running' = FALSE

\* catch (err) { console.error("Error checking calendar:", ...) }: the
\* invocation ends and its promise is fulfilled
Caught(s) ==
  /\ cyc' = [cyc EXCEPT ![s] = IdleCycle]
  /\ lastLog' = "error"
  /\ running' = running

\* cron.schedule(..., () => { checkCalendarAndNotify(); }): a tick starts an
\* invocation, which runs to the first await of getUpcomingEvents
Tick(s) ==
  /\ running
  /\ mainPc = "scheduled"
  /\ ~Active(s)
  /\ \A t \in Slots : t < s => Active(t)
  /\ cyc' = [cyc EXCEPT ![s] =
       [IdleCycle EXCEPT !.pc = IF googleAuthed THEN "list" ELSE "authorize",
                         !.timeMin = IF googleAuthed THEN now ELSE 0]]
  /\ lastLog' = "checking"
  /\ UNCHANGED mainVars
  /\ UNCHANGED <<now, localZone, season, impl, calendar, googleAuthed,
                 remindedDay, remindedWeek, calls, delivered, failedPairs, running>>

\* await jwtClient.authorize() resolves
AuthorizeOk(s) ==
  /\ running
  /\ cyc[s].pc = "authorize"
  /\ googleAuthed' = TRUE
  /\ cyc' = [cyc EXCEPT ![s].pc = "list", ![s].timeMin = now]
  /\ lastLog' = "authorized"
  /\ UNCHANGED mainVars
  /\ UNCHANGED <<now, localZone, season, impl, calendar, remindedDay,
                 remindedWeek, calls, delivered, failedPairs, running>>

\* AuthorizeFail of a getUpcomingEvents that sets the flag before it awaits
AuthorizeFailFlagSet(s) ==
  /\ running
  /\ cyc[s].pc = "authorize"
  /\ googleAuthed' = TRUE
  /\ Caught(s)
  /\ UNCHANGED mainVars
  /\ UNCHANGED <<now, localZone, season, impl, calendar,
                 remindedDay, remindedWeek, calls, delivered, failedPairs>>

\* await jwtClient.authorize() rejects
AuthorizeFail(s) ==
  /\ running
  /\ cyc[s].pc = "authorize"
  /\ Caught(s)
  /\ UNCHANGED mainVars
  /\ UNCHANGED <<now, localZone, season, impl, calendar, googleAuthed,
                 remindedDay, remindedWeek, calls, delivered, failedPairs>>

\* await calendar.events.list(...) resolves: the dates are computed and the
\* loop runs to its first delivery
ListOk(s) ==
  /\ running
  /\ cyc[s].pc = "list"
  /\ LET r == [cyc[s] EXCEPT !.events = ListedEvents(cyc[s].timeMin),
                             !.todayYMD = ymdInTZ(now),
                             !.tomorrowYMD = ymdInTZ(addDays(now, 1)),
                             !.weekYMD = ymdInTZ(addDays(now, 7))]
     IN RunLoop(s, r, 1, "day", remindedDay, remindedWeek)
  /\ lastLog' = "fetched"
  /\ UNCHANGED mainVars
  /\ UNCHANGED <<now, localZone, season, impl, calendar, googleAuthed,
                 remindedDay, remindedWeek, delivered, failedPairs, running>>

\* await calendar.events.list(...) rejects
ListFail(s) ==
  /\ running
  /\ cyc[s].pc = "list"
  /\ Caught(s)
  /\ UNCHANGED mainVars
  /\ UNCHANGED <<now, localZone, season, impl, calendar, googleAuthed,
                 remindedDay, remindedWeek, calls, delivered, failedPairs>>

\* SendOk without remindedDay.add / remindedWeek.add
SendOkNoMark(s) ==
  /\ running
  /\ Sending(s)
  /\ delivered' = Inc(delivered, PairOf(s))
  /\ IF cyc[s].pc = "sendDay"
     THEN RunLoop(s, cyc[s], cyc[s].idx, "week", remindedDay, remindedWeek)
     ELSE RunLoop(s, cyc[s], cyc[s].idx + 1, "day", remindedDay, remindedWeek)
  /\ lastLog' = "sent"
  /\ UNCHANGED mainVars
  /\ UNCHANGED <<now, localZone, season, impl, calendar, googleAuthed,
                 remindedDay, remindedWeek, failedPairs, running>>

\* await slack.chat.postMessage(...) resolves: the id is added to the set of
\* the threshold and the loop goes on
SendOk(s) ==
  /\ running
  /\ Sending(s)
  /\ LET id == cyc[s].events[cyc[s].idx].id
         rd == IF cyc[s].pc = "sendDay" THEN remindedDay \cup {id} ELSE remindedDay
         rw == IF cyc[s].pc = "sendWeek" THEN remindedWeek \cup {id} ELSE remindedWeek
     IN /\ remindedDay' = rd
        /\ remindedWeek' = rw
        /\ delivered' = Inc(delivered, PairOf(s))
        /\ IF cyc[s].pc = "sendDay"
           THEN RunLoop(s, cyc[s], cyc[s].idx, "week", rd, rw)
           ELSE RunLoop(s, cyc[s], cyc[s].idx + 1, "day", rd, rw)
  /\ lastLog' = "sent"
  /\ UNCHANGED mainVars
  /\ UNCHANGED <<now, localZone, season, impl, calendar, googleAuthed,
                 failedPairs, running>>

\* SendFail of a loop that adds the id before it awaits the delivery
SendFailMarked(s) ==
  /\ running
  /\ Sending(s)
  /\ failedPairs' = failedPairs \cup {PairOf(s)}
  /\ remindedDay' = IF cyc[s].pc = "sendDay"
                    THEN remindedDay \cup {PairOf(s)[1]} ELSE remindedDay
  /\ remindedWeek' = IF cyc[s].pc = "sendWeek"
                     THEN remindedWeek \cup {PairOf(s)[1]} ELSE remindedWeek
  /\ Caught(s)
  /\ UNCHANGED mainVars
  /\ UNCHANGED <<now, localZone, season, impl, calendar, googleAuthed,
                 calls, delivered>>

\* SendFail of a loop that catches the error of each delivery and goes on
SendFailContinue(s) ==
  /\ running
  /\ Sending(s)
  /\ failedPairs' = failedPairs \cup {PairOf(s)}
  /\ IF cyc[s].pc = "sendDay"
     THEN RunLoop(s, cyc[s], cyc[s].idx, "week", remindedDay, remindedWeek)
     ELSE RunLoop(s, cyc[s], cyc[s].idx + 1, "day", remindedDay, remindedWeek)
  /\ lastLog' = "error"
  /\ UNCHANGED mainVars
  /\ UNCHANGED <<now, localZone, season, impl, calendar, googleAuthed,
                 remindedDay, remindedWeek, delivered, running>>

\* SendFail of a loop that withdraws the id of a failed delivery from its set
SendFailUnmark(s) ==
  /\ running
  /\ Sending(s)
  /\ failedPairs' = failedPairs \cup {PairOf(s)}
  /\ remindedDay' = IF cyc[s].pc = "sendDay"
                    THEN remindedDay \ {PairOf(s)[1]} ELSE remindedDay
  /\ remindedWeek' = IF cyc[s].pc = "sendWeek"
                     THEN remindedWeek \ {PairOf(s)[1]} ELSE remindedWeek
  /\ Caught(s)
  /\ UNCHANGED mainVars
  /\ UNCHANGED <<now, localZone, season, impl, calendar, googleAuthed,
                 calls, delivered>>

\* await slack.chat.postMessage(...) rejects
SendFail(s) ==
  /\ running
  /\ Sending(s)
  /\ failedPairs' = failedPairs \cup {PairOf(s)}
  /\ Caught(s)
  /\ UNCHANGED mainVars
  /\ UNCHANGED <<now, localZone, season, impl, calendar, googleAuthed,
                 remindedDay, remindedWeek, calls, delivered>>

\* a day passes
AdvanceClock ==
  /\ running
  /\ now + HoursPerDay <= ClockEnd
  /\ now' = now + HoursPerDay
  /\ UNCHANGED mainVars
  /\ UNCHANGED <<localZone, season, impl, calendar, googleAuthed, remindedDay,
                 remindedWeek, cyc, calls, delivered, failedPairs, lastLog, running>>

(***************************************************************************)
(* The calendars the source may hold: at most MaxEvents events, ordered by *)
(* start time (orderBy: "startTime"), no id used twice.                    *)
(***************************************************************************)
\* an instant in the middle of day d of TZ
Midday(d) == d * HoursPerDay + 20

EventPool ==
  {AllDay("a", FirstDay + 1), AllDay("a", FirstDay + 7),
   Timed("b", Midday(FirstDay + 1)), Timed("b", Midday(FirstDay + 7)),
   NoStart("b"), EmptyStart("b"), AllDay("", FirstDay + 1)}

SeqsUpTo(S, n) == UNION {[1 .. k -> S] : k \in 0 .. n}

Ordered(c) ==
  \A i, j \in 1 .. Len(c) :
    i < j =>
      /\ (c[i].id # "" => c[i].id # c[j].id)
      /\ (~Malformed(c[i]) /\ ~Malformed(c[j]) => EventStart(c[i]) <= EventStart(c[j]))

Calendars == {c \in SeqsUpTo(EventPool, MaxEvents) : Ordered(c)}

(***************************************************************************)
(* The process in always-on mode, within one day: any number of cron       *)
(* ticks, invocations overlapping, any fetch or delivery failing.          *)
(***************************************************************************)
Init ==
  /\ now = Midday(FirstDay)
  /\ localZone \in Zones
  /\ season = "none"
  /\ impl = "part_001"
  /\ calendar \in Calendars
  /\ googleAuthed = FALSE
  /\ remindedDay = {}
  /\ remindedWeek = {}
  /\ cyc = [s \in Slots |-> IdleCycle]
  /\ calls = [p \in Pairs |-> 0]
  /\ delivered = [p \in Pairs |-> 0]
  /\ failedPairs = {}
  /\ lastLog = "start"
  /\ running = TRUE
  /\ runOnce = FALSE
  /\ mainPc = "scheduled"
  /\ exitCode = Absent
  /\ serverStarted = TRUE

Next ==
  \/ \E s \in Slots : Tick(s)
  \/ \E s \in Slots : AuthorizeOk(s)
  \/ \E s \in Slots : AuthorizeFail(s)
  \/ \E s \in Slots : ListOk(s)
  \/ \E s \in Slots : ListFail(s)
  \/ \E s \in Slots : SendOk(s)
  \/ \E s \in Slots : SendFail(s)

Spec == Init /\ [][Next]_vars

(***************************************************************************)
(* Poll cycles run one after another, every fetch and delivery succeeding, *)
(* within one day.                                                         *)
(***************************************************************************)
NoneActive == \A s \in Slots : ~Active(s)

NextSeq ==
  \/ (NoneActive /\ \E s \in Slots : Tick(s))
  \/ \E s \in Slots : AuthorizeOk(s)
  \/ \E s \in Slots : ListOk(s)
  \/ \E s \in Slots : SendOk(s)

SpecSeq == Init /\ [][NextSeq]_vars

(***************************************************************************)
(* Properties.                                                             *)
(***************************************************************************)
Ledger(th) == IF th = "1 day" THEN remindedDay ELSE remindedWeek
LedgerNext(th) == IF th = "1 day" THEN remindedDay' ELSE remindedWeek'
DaysOf(th) == IF th = "1 day" THEN 1 ELSE 7

\* event e of the calendar is fetched at the present instant and its date is
\* the date the loop computes for threshold th
MatchesNow(e, th) ==
  /\ ~Malformed(e)
  /\ InWindow(e, now, now + LookAheadHours)
  /\ eventYMD(e) = ymdInTZ(addDays(now, DaysOf(th)))

CalendarEvents == {calendar[i] : i \in 1 .. Len(calendar)}

\* the invocation of slot s takes a step
Steps(s) == cyc'[s] # cyc[s]

\* C1: in always-on mode at most one notification is delivered for each
\* (event id, threshold), overlapping invocations included.
C1_AtMostOneDelivery == \A p \in Pairs : delivered[p] <= 1

\* C2: in cycles run one after another with every fetch and delivery
\* succeeding, an event that matches a threshold has exactly one
\* sendSlackReminder call for that threshold once a cycle has completed, and
\* never more than one: the call of the first cycle.
C2_ExactlyOneRequest ==
  /\ \A p \in Pairs : calls[p] <= 1
  /\ (NoneActive /\ lastLog \in {"fetched", "sent"}) =>
       \A e \in CalendarEvents : \A th \in Thresholds :
         MatchesNow(e, th) => calls[<<e.id, th>>] = 1

\* C2 witness: a second cycle has completed on a matching event that the
\* first cycle delivered.
C2_Witness ==
  /\ NoneActive
  /\ lastLog = "fetched"
  /\ \E e \in CalendarEvents :
       /\ MatchesNow(e, "1 day")
       /\ calls[<<e.id, "1 day">>] = 1
       /\ delivered[<<e.id, "1 day">>] = 1
       /\ e.id \in remindedDay

\* C3 as claimed: a pair whose delivery has failed is recorded in its set, and
\* no later sendSlackReminder call is made for it.
C3_FailOpen ==
  [][\A p \in Pairs :
       p \in failedPairs' =>
         /\ p[1] \in LedgerNext(p[2])
         /\ (p \in failedPairs => calls'[p] = calls[p])]_vars

\* C3 amended: a failed delivery ends the invocation and records nothing;
\* unless another invocation has recorded the pair, the loop run again on the
\* same event and threshold stops at the same delivery, so the pair is retried.
C3_FailedDeliveryRetried ==
  [][\A s \in Slots :
       (Sending(s) /\ Steps(s) /\ lastLog' = "error") =>
         /\ ~Active(s)'
         /\ remindedDay' = remindedDay
         /\ remindedWeek' = remindedWeek
         /\ failedPairs' = failedPairs \cup {PairOf(s)}
         /\ (PairOf(s)[1] \notin Ledger(PairOf(s)[2]) =>
               NextStop(cyc[s].events, cyc[s].idx,
                        IF cyc[s].pc = "sendDay" THEN "day" ELSE "week",
                        cyc[s].tomorrowYMD, cyc[s].weekYMD,
                        remindedDay', remindedWeek')
                 = [pc |-> cyc[s].pc, idx |-> cyc[s].idx])]_vars

\* C3 witness: the only active invocation waits for a delivery of a pair
\* whose earlier delivery failed.
C3_Witness ==
  \E s \in Slots :
    /\ Sending(s)
    /\ \A t \in Slots : t # s => ~Active(t)
    /\ PairOf(s) \in failedPairs
    /\ calls[PairOf(s)] = 2
    /\ delivered[PairOf(s)] = 0

(***************************************************************************)
(* Liveness: poll cycles one after another, any of their fetches and       *)
(* deliveries failing, with what cron and the transports provide: ticks    *)
(* keep coming, and an authorization, a fetch or a delivery that is tried  *)
(* again and again succeeds at some attempt.                               *)
(***************************************************************************)
TickWhenIdle == NoneActive /\ \E s \in Slots : Tick(s)

NextLive ==
  \/ TickWhenIdle
  \/ \E s \in Slots : AuthorizeOk(s)
  \/ \E s \in Slots : AuthorizeFail(s)
  \/ \E s \in Slots : ListOk(s)
  \/ \E s \in Slots : ListFail(s)
  \/ \E s \in Slots : SendOk(s)
  \/ \E s \in Slots : SendFail(s)
  \/ AdvanceClock

Fairness ==
  /\ WF_vars(TickWhenIdle)
  /\ \A s \in Slots :
       /\ SF_vars(AuthorizeOk(s))
       /\ SF_vars(ListOk(s))
       /\ SF_vars(SendOk(s))

\* calendars of two events, the first of which matches a threshold at the start
LiveCalendars ==
  {<<AllDay("a", FirstDay + 1), Timed("b", Midday(FirstDay + 1))>>,
   <<AllDay("a", FirstDay + 1), Timed("b", Midday(FirstDay + 7))>>,
   <<Timed("b", Midday(FirstDay + 1)), AllDay("a", FirstDay + 7)>>,
   <<EmptyStart("b"), AllDay("a", FirstDay + 1)>>}

InitLive ==
  /\ Init
  /\ calendar \in LiveCalendars

SpecLive == InitLive /\ [][NextLive]_vars /\ Fairness

\* every event of the calendar whose date matches a threshold at the present
\* instant has been delivered for that threshold
AllDueDelivered ==
  \A e \in CalendarEvents : \A th \in Thresholds :
    MatchesNow(e, th) => delivered[<<e.id, th>>] > 0

\* C4: whatever fetches and deliveries failed before, a state is reached
\* again and again in which every event whose date matches a threshold has
\* been delivered for it: a matching event is delivered unless its day passes.
C4_EventuallyDelivered == []<>AllDueDelivered

\* C4 witness: a pair was delivered after a delivery of it had failed.
C4_Witness ==
  \E e \in CalendarEvents : \E th \in Thresholds :
    /\ MatchesNow(e, th)
    /\ <<e.id, th>> \in failedPairs
    /\ delivered[<<e.id, th>>] = 1
    /\ lastLog = "sent"

\* C5: a failed authorization or events.list ends the invocation before any
\* batch was received, with no sendSlackReminder call and with remindedDay,
\* remindedWeek and googleAuthed as they were; an invocation starts with the
\* authorization unless one has succeeded, and lists only when authorized.
C5_FetchFailureRetried ==
  [][\A s \in Slots :
       /\ (cyc[s].pc \in {"authorize", "list"} /\ Steps(s) /\ lastLog' = "error") =>
            /\ ~Active(s)'
            /\ cyc[s].events = <<>> /\ cyc[s].idx = 0
            /\ remindedDay' = remindedDay
            /\ remindedWeek' = remindedWeek
            /\ calls' = calls
            /\ delivered' = delivered
            /\ googleAuthed' = googleAuthed
       /\ (~Active(s) /\ Active(s)') =>
            /\ cyc'[s].pc = IF googleAuthed THEN "list" ELSE "authorize"
            /\ cyc'[s].events = <<>>
       /\ (cyc'[s].pc = "list" => googleAuthed')]_vars

\* C5 witness: an invocation has ended in an error before any delivery was
\* ever tried, the authorization still to be done.
C5_Witness ==
  /\ lastLog = "error"
  /\ NoneActive
  /\ ~googleAuthed
  /\ failedPairs = {}
  /\ \A p \in Pairs : calls[p] = 0

\* a cron tick can start an invocation
TickEnabled == ENABLED (\E s \in Slots : Tick(s))

\* C6: no error leaves checkCalendarAndNotify: the process keeps running, and
\* after an error a cron tick can start a new invocation.
C6_NoErrorEscapes ==
  /\ running
  /\ (lastLog = "error" => TickEnabled)

\* C6 witness: a tick has started an invocation after a delivery failed.
C6_Witness ==
  /\ lastLog = "checking"
  /\ failedPairs # {}
  /\ Cardinality({s \in Slots : Active(s)}) = 1

WellFormedOnly(evs) == SelectSeq(evs, LAMBDA e : ~Malformed(e))
\* the place of event i of evs among the well-formed events of evs
Rank(evs, i) == Cardinality({j \in 1 .. i : ~Malformed(evs[j])})

\* C7: a malformed event gets no sendSlackReminder call and raises nothing,
\* and every step of the loop ends where it would end on the batch without
\* its malformed events: at the same delivery of the same event, or at the
\* end of the loop.
C7_MalformedSkipped ==
  [][\A s \in Slots :
       (Steps(s) /\ lastLog' \in {"fetched", "sent"}) =>
         LET listed == cyc[s].pc = "list"
             evs == IF listed THEN ListedEvents(cyc[s].timeMin) ELSE cyc[s].events
             tom == IF listed THEN ymdInTZ(addDays(now, 1)) ELSE cyc[s].tomorrowYMD
             wk == IF listed THEN ymdInTZ(addDays(now, 7)) ELSE cyc[s].weekYMD
             from == IF listed THEN 1
                     ELSE IF cyc[s].pc = "sendDay" THEN Rank(evs, cyc[s].idx)
                     ELSE Rank(evs, cyc[s].idx) + 1
             ph == IF cyc[s].pc = "sendDay" THEN "week" ELSE "day"
             expect == NextStop(WellFormedOnly(evs), from, ph, tom, wk,
                                remindedDay', remindedWeek')
         IN /\ cyc'[s].pc = expect.pc
            /\ Active(s)' =>
                 /\ ~Malformed(cyc'[s].events[cyc'[s].idx])
                 /\ cyc'[s].events[cyc'[s].idx] = WellFormedOnly(evs)[expect.idx]
            /\ \A id \in remindedDay' \cup remindedWeek' :
                 \E e \in CalendarEvents : ~Malformed(e) /\ e.id = id]_vars

\* C7 witness: an invocation waits for the delivery of an event that comes
\* after a malformed event of its batch.
C7_Witness ==
  \E s \in Slots :
    /\ Sending(s)
    /\ cyc[s].idx = 2
    /\ Malformed(cyc[s].events[1])

\* C8: a sendSlackReminder call is made only for a pair that is not in the
\* set of its threshold when the loop tests it.
C8_NoRequestForMarkedPair ==
  [][\A s \in Slots :
       (Steps(s) /\ Sending(s)') =>
         /\ PairOf(s)'[1] \notin LedgerNext(PairOf(s)'[2])
         /\ PairOf(s)'[1] \notin Ledger(PairOf(s)'[2])]_vars

\* C8 witness: all-day event a is tomorrow, its "1 day" reminder was made
\* once and recorded, and a later invocation has fetched it and ended
\* without a call.
C8_Witness ==
  /\ NoneActive
  /\ lastLog = "fetched"
  /\ AllDay("a", ymdInTZ(now) + 1) \in CalendarEvents
  /\ MatchesNow(AllDay("a", ymdInTZ(now) + 1), "1 day")
  /\ "a" \in remindedDay
  /\ calls[<<"a", "1 day">>] = 1

(***************************************************************************)
(* The classification of one event at every hour of the days around the    *)
(* transition of TZ, by each implementation, every fetch and delivery      *)
(* succeeding.                                                             *)
(***************************************************************************)
DatesNow == (FirstDay * HoursPerDay + 8) .. ((TransitionDay + MaxDays) * HoursPerDay + 8)
DatesDays == (FirstDay - 1) .. (TransitionDay + MaxDays + 8)

DatesCalendars ==
  {<<AllDay("a", d)>> : d \in DatesDays}
    \cup {<<Timed("a", d * HoursPerDay + h)>> : d \in DatesDays, h \in 0 .. (HoursPerDay - 1)}

InitDates ==
  /\ now \in DatesNow
  /\ localZone \in Zones
  /\ season \in Seasons
  /\ impl \in Impls
  /\ calendar \in DatesCalendars
  /\ googleAuthed = FALSE
  /\ remindedDay = {}
  /\ remindedWeek = {}
  /\ cyc = [s \in Slots |-> IdleCycle]
  /\ calls = [p \in Pairs |-> 0]
  /\ delivered = [p \in Pairs |-> 0]
  /\ failedPairs = {}
  /\ lastLog = "start"
  /\ running = TRUE
  /\ runOnce = FALSE
  /\ mainPc = "scheduled"
  /\ exitCode = Absent
  /\ serverStarted = TRUE

SpecDates == InitDates /\ [][NextSeq]_vars

\* the date the loop has found equal to the event's when it waits for a delivery
ComparedDate(s) ==
  IF cyc[s].pc = "sendDay" THEN cyc[s].tomorrowYMD ELSE cyc[s].weekYMD

\* C9: for an all-day event with start.date = D the date compared with the
\* tomorrow and +7 dates is D, in part_001 and in index.js: a reminder of an
\* all-day event is requested only when D is the tomorrow (the +7) date, and
\* a fetched all-day event whose D is that date gets its reminder.
C9_AllDayDateVerbatim ==
  /\ \A s \in Slots :
       (Sending(s) /\ IsAllDay(cyc[s].events[cyc[s].idx])) =>
         cyc[s].events[cyc[s].idx].date = ComparedDate(s)
  /\ (NoneActive /\ lastLog \in {"fetched", "sent"}) =>
       \A e \in CalendarEvents : \A th \in Thresholds :
         ( /\ IsAllDay(e) /\ ~Malformed(e)
           /\ InWindow(e, now, now + LookAheadHours)
           /\ e.date = ymdInTZ(addDays(now, DaysOf(th))) )
         => e.id \in Ledger(th)

\* C10: in part_001 a "1 day" reminder is requested only for an event whose
\* date in TZ is today + 1 and a "1 week" reminder only for one whose date is
\* today + 7, today being the date of now in TZ.
C10_ExactWindow ==
  \A s \in Slots :
    (impl = "part_001" /\ Sending(s)) =>
      DateInTZ(cyc[s].events[cyc[s].idx])
        = cyc[s].todayYMD + DaysOf(LabelOf(cyc[s].pc))

(***************************************************************************)
(* The process over several days: invocations one at a time, a day passing *)
(* or an event being moved to the next day at any moment, the calendar     *)
(* holding two events.                                                     *)
(***************************************************************************)
\* the last instant the clock reaches: the days from the "1 week" match of
\* an event to its "1 day" match lie within it
DaysEnd == ClockEnd + (7 - 1) * HoursPerDay

\* a day passes while no invocation is suspended
PassDay ==
  /\ running
  /\ NoneActive
  /\ now + HoursPerDay <= DaysEnd
  /\ now' = now + HoursPerDay
  /\ UNCHANGED mainVars
  /\ UNCHANGED <<localZone, season, impl, calendar, googleAuthed, remindedDay,
                 remindedWeek, cyc, calls, delivered, failedPairs, lastLog, running>>

\* the event with its start moved to the next day, its id kept
Postponed(e) ==
  IF IsAllDay(e) THEN AllDay(e.id, e.date + 1)
  ELSE Timed(e.id, e.dateTime + HoursPerDay)

\* the dates an event is moved to
PostponedDates ==
  {FirstDay + d + k : d \in {1, 7}, k \in 1 .. MaxDays}

\* the owner of the calendar moves event k to the next day; events.list
\* keeps returning the events ordered by start time
Postpone(k) ==
  /\ running
  /\ k \in 1 .. Len(calendar)
  /\ ~Malformed(calendar[k])
  /\ DateInTZ(Postponed(calendar[k])) \in PostponedDates
  /\ \E f \in Permutations(1 .. Len(calendar)) :
       LET moved == [calendar EXCEPT ![k] = Postponed(calendar[k])]
           c == [i \in 1 .. Len(calendar) |-> moved[f[i]]]
       IN /\ Ordered(c)
          /\ calendar' = c
  /\ UNCHANGED mainVars
  /\ UNCHANGED <<now, localZone, season, impl, googleAuthed, remindedDay,
                 remindedWeek, cyc, calls, delivered, failedPairs, lastLog, running>>

NextDays ==
  \/ (NoneActive /\ \E s \in Slots : Tick(s))
  \/ \E s \in Slots : AuthorizeOk(s)
  \/ \E s \in Slots : ListOk(s)
  \/ \E s \in Slots : SendOk(s)
  \/ \E s \in Slots : SendFail(s)
  \/ PassDay
  \/ \E k \in 1 .. MaxEvents : Postpone(k)

SpecDays == InitLive /\ [][NextDays]_vars

\* C11: a reminder is keyed by event id and threshold only: once the
\* reminder of (id, threshold) is delivered and recorded, no delivery is
\* requested for that pair again, whatever start the event has later, so an
\* event moved to a date that matches the threshold again on a later day gets
\* no second reminder.
C11_KeyedByIdAndThreshold ==
  /\ \A p \in Pairs : delivered[p] <= 1
  /\ \A s \in Slots : Sending(s) => PairOf(s)[1] \notin Ledger(PairOf(s)[2])

\* C11 witness: all-day event a was tomorrow on the first day and got its
\* "1 day" reminder; it was moved one day, a day has passed, a is tomorrow
\* again, and an invocation has fetched it and ended without a second call.
C11_Witness ==
  /\ NoneActive
  /\ lastLog = "fetched"
  /\ now = Midday(FirstDay + 1)
  /\ calendar[1] = AllDay("a", FirstDay + 2)
  /\ MatchesNow(calendar[1], "1 day")
  /\ "a" \in remindedDay
  /\ calls[<<"a", "1 day">>] = 1
  /\ delivered[<<"a", "1 day">>] = 1

\* C12: at most one invocation of checkCalendarAndNotify is active at any
\* moment: the scheduler starts no invocation while an earlier one has not
\* finished.
C12_OneCycleAtATime == Cardinality({s \in Slots : Active(s)}) <= 1

\* C13: the dates an invocation computes after the fetch are calendar dates
\* of TZ: tomorrowYMD is the date that follows todayYMD and weekYMD is the
\* date 7 days after todayYMD, for every now, every season of TZ and every
\* zone of the process.
C13_DatesInTZ ==
  \A s \in Slots :
    Sending(s) =>
      /\ cyc[s].tomorrowYMD = cyc[s].todayYMD + 1
      /\ cyc[s].weekYMD = cyc[s].todayYMD + 7

\* C14: an id is in remindedDay (remindedWeek) only if a delivery of that
\* event with label "1 day" ("1 week") has completed successfully.
C14_LedgerImpliesDelivered ==
  \A p \in Pairs : p[1] \in Ledger(p[2]) => delivered[p] >= 1

\* C14 witness: the "1 day" reminder of a was delivered and recorded, and the
\* delivery of another pair has failed and left that pair out of its set.
C14_Witness ==
  /\ "a" \in remindedDay
  /\ delivered[<<"a", "1 day">>] = 1
  /\ \E p \in failedPairs : p[1] \notin Ledger(p[2]) /\ delivered[p] = 0

\* the awaited delivery of slot s rejects in this step
DeliveryFails(s) == Sending(s) /\ Steps(s) /\ lastLog' = "error"

\* C15: when the delivery for the event at position i of the batch fails,
\* the invocation ends in that step, and for every event at a later position
\* no delivery is requested or made and neither set changes, so the pairs of
\* the later events are as eligible after the step as before it.
C15_FailureEndsCycle ==
  [][\A s \in Slots :
       DeliveryFails(s) =>
         /\ cyc'[s].pc = "idle"
         /\ \A j \in (cyc[s].idx + 1) .. Len(cyc[s].events) :
              \A th \in Thresholds :
                LET e == cyc[s].events[j]
                IN ~Malformed(e) =>
                     /\ calls'[<<e.id, th>>] = calls[<<e.id, th>>]
                     /\ delivered'[<<e.id, th>>] = delivered[<<e.id, th>>]
                     /\ (e.id \in LedgerNext(th)) = (e.id \in Ledger(th))]_vars

\* C15 witness: a and b are both tomorrow, the "1 day" delivery of a, first
\* of the batch, has failed, and the invocation has ended with no request
\* for b, which is in no set.
C15_Witness ==
  /\ NoneActive
  /\ lastLog = "error"
  /\ calendar = <<AllDay("a", FirstDay + 1), Timed("b", Midday(FirstDay + 1))>>
  /\ MatchesNow(calendar[2], "1 day")
  /\ failedPairs = {<<"a", "1 day">>}
  /\ calls[<<"a", "1 day">>] = 1
  /\ calls[<<"b", "1 day">>] = 0
  /\ "b" \notin remindedDay

\* the date the invocation of slot s compares with the event's for threshold th
DateFor(s, th) == IF th = "1 day" THEN cyc[s].tomorrowYMD ELSE cyc[s].weekYMD

\* pair <<j, th>> of the batch of slot s comes before the pair it waits for
Earlier(s, j, th) ==
  \/ j < cyc[s].idx
  \/ (j = cyc[s].idx /\ th = "1 day" /\ cyc[s].pc = "sendWeek")

\* C16: within one invocation the deliveries are made one at a time in batch
\* order: while the invocation waits for a delivery, the delivery of every
\* earlier pair of the batch whose date matched has completed and is
\* recorded; a step of the invocation requests at most one delivery, the one
\* it is then suspended on, and that one is later in the batch than the one
\* it waited for.
C16_SequentialInOrder ==
  /\ [](\A s \in Slots :
          Sending(s) =>
            \A j \in 1 .. cyc[s].idx : \A th \in Thresholds :
              LET e == cyc[s].events[j]
              IN (Earlier(s, j, th) /\ ~Malformed(e) /\ eventYMD(e) = DateFor(s, th))
                   => e.id \in Ledger(th))
  /\ [][\A s \in Slots :
          Steps(s) =>
            /\ \A p \in Pairs :
                 calls'[p] # calls[p] => (cyc'[s].pc # "idle" /\ PairOf(s)' = p)
            /\ (Sending(s) /\ cyc'[s].pc # "idle") =>
                 \/ cyc'[s].idx > cyc[s].idx
                 \/ /\ cyc'[s].idx = cyc[s].idx
                    /\ cyc[s].pc = "sendDay"
                    /\ cyc'[s].pc = "sendWeek"]_vars

\* C16 witness: a and b are both tomorrow; one invocation has delivered and
\* recorded the reminder of a, first of the batch, and now waits for the
\* delivery of b, second of the batch.
C16_Witness ==
  \E s \in Slots :
    /\ \A r \in Slots \ {s} : ~Active(r)
    /\ cyc[s].pc = "sendDay"
    /\ cyc[s].idx = 2
    /\ cyc[s].events = <<AllDay("a", FirstDay + 1), Timed("b", Midday(FirstDay + 1))>>
    /\ failedPairs = {}
    /\ "a" \in remindedDay
    /\ delivered[<<"a", "1 day">>] = 1
    /\ calls[<<"a", "1 day">>] = 1
    /\ calls[<<"b", "1 day">>] = 1

\* the batch of the invocation of slot s, and the date it compares for
\* threshold th, in the step that ends its await of events.list or of a
\* delivery
BatchOf(s) == IF cyc[s].pc = "list" THEN ListedEvents(now) ELSE cyc[s].events
DateOf(s, th) ==
  IF cyc[s].pc = "list" THEN ymdInTZ(addDays(now, DaysOf(th))) ELSE DateFor(s, th)

\* the invocation of slot s ends in this step, no fetch or delivery having failed
Completes(s) ==
  /\ cyc[s].pc \in {"list", "sendDay", "sendWeek"}
  /\ cyc'[s].pc = "idle"
  /\ lastLog' \in {"fetched", "sent"}

\* C17: the thresholds are deduplicated independently: when an invocation
\* ends without a failure, every event of its batch whose date is the
\* tomorrow date is in remindedDay with its "1 day" reminder delivered, and
\* every one whose date is the +7 date is in remindedWeek with its "1 week"
\* reminder delivered, whatever the other set holds; and a step that adds an
\* id to the set of one threshold leaves the set of the other unchanged.
C17_ThresholdsIndependent ==
  [][/\ \A s \in Slots :
          Completes(s) =>
            \A j \in 1 .. Len(BatchOf(s)) : \A th \in Thresholds :
              LET e == BatchOf(s)[j]
              IN (~Malformed(e) /\ eventYMD(e) = DateOf(s, th)) =>
                   /\ e.id \in LedgerNext(th)
                   /\ delivered'[<<e.id, th>>] >= 1
     /\ (remindedDay' # remindedDay => remindedWeek' = remindedWeek)
     /\ (remindedWeek' # remindedWeek => remindedDay' = remindedDay)]_vars

\* C17 witness: all-day event a got its "1 week" reminder on the first day,
\* six days have passed, its date is tomorrow, and it has got its "1 day"
\* reminder too.
C17_Witness ==
  /\ NoneActive
  /\ now = Midday(FirstDay + 6)
  /\ AllDay("a", FirstDay + 7) \in CalendarEvents
  /\ MatchesNow(AllDay("a", FirstDay + 7), "1 day")
  /\ "a" \in remindedWeek
  /\ "a" \in remindedDay
  /\ delivered[<<"a", "1 week">>] = 1
  /\ delivered[<<"a", "1 day">>] = 1

\* C18: remindedDay and remindedWeek are empty when the process starts; in
\* every step each set includes its previous value; and the step of a
\* successful delivery of (id, threshold) makes the set of the threshold its
\* previous value with the id, so adding an id already there changes nothing.
C18_LedgerOnlyGrows ==
  /\ (remindedDay = {} /\ remindedWeek = {})
  /\ [][/\ remindedDay \subseteq remindedDay'
        /\ remindedWeek \subseteq remindedWeek'
        /\ \A p \in Pairs :
             delivered'[p] # delivered[p] =>
               LedgerNext(p[2]) = Ledger(p[2]) \cup {p[1]}]_vars

\* C18 witness: two overlapping invocations have both delivered the "1 day"
\* reminder of a; the second add found a in remindedDay already.
C18_Witness ==
  /\ lastLog = "sent"
  /\ delivered[<<"a", "1 day">>] = 2
  /\ remindedDay = {"a"}

(***************************************************************************)
(* main(): the process from its start, in run-once mode and in always-on   *)
(* mode, invocations one at a time, any fetch or delivery failing.         *)
(***************************************************************************)
\* if (RUN_ONCE === "true") { await checkCalendarAndNotify(); ... }: main
\* starts the one invocation and is suspended on its promise
MainRunOnce ==
  /\ running
  /\ mainPc = "start"
  /\ runOnce
  /\ cyc' = [cyc EXCEPT ![1] =
       [IdleCycle EXCEPT !.pc = IF googleAuthed THEN "list" ELSE "authorize",
                         !.timeMin = IF googleAuthed THEN now ELSE 0]]
  /\ mainPc' = "awaitCycle"
  /\ UNCHANGED <<now, localZone, season, impl, calendar, googleAuthed,
                 remindedDay, remindedWeek, calls, delivered, failedPairs,
                 lastLog, running, runOnce, exitCode, serverStarted>>

\* a main that does not await the invocation before process.exit(0)
MainExitNoAwait ==
  /\ running
  /\ mainPc = "awaitCycle"
  /\ lastLog' = "complete"
  /\ mainPc' = "exited"
  /\ exitCode' = 0
  /\ running' = FALSE
  /\ UNCHANGED <<now, localZone, season, impl, calendar, googleAuthed,
                 remindedDay, remindedWeek, cyc, calls, delivered, failedPairs,
                 runOnce, serverStarted>>

\* the promise of the invocation is fulfilled:
\* console.log("RUN_ONCE complete. Exiting."); process.exit(0)
MainExit ==
  /\ running
  /\ mainPc = "awaitCycle"
  /\ NoneActive
  /\ lastLog' = "complete"
  /\ mainPc' = "exited"
  /\ exitCode' = 0
  /\ running' = FALSE
  /\ UNCHANGED <<now, localZone, season, impl, calendar, googleAuthed,
                 remindedDay, remindedWeek, cyc, calls, delivered, failedPairs,
                 runOnce, serverStarted>>

\* startServer(); cron.schedule(...): both return
MainAlwaysOn ==
  /\ running
  /\ mainPc = "start"
  /\ ~runOnce
  /\ serverStarted' = TRUE
  /\ mainPc' = "scheduled"
  /\ UNCHANGED <<now, localZone, season, impl, calendar, googleAuthed,
                 remindedDay, remindedWeek, cyc, calls, delivered, failedPairs,
                 lastLog, running, runOnce, exitCode>>

\* startServer() or cron.schedule(...) throws (a port out of range, an
\* invalid CHECK_INTERVAL_CRON): main rejects,
\* main().catch(err => { ...; process.exit(1) })
MainFails ==
  /\ running
  /\ mainPc = "start"
  /\ ~runOnce
  /\ serverStarted' \in BOOLEAN
  /\ lastLog' = "fatal"
  /\ mainPc' = "exited"
  /\ exitCode' = 1
  /\ running' = FALSE
  /\ UNCHANGED <<now, localZone, season, impl, calendar, googleAuthed,
                 remindedDay, remindedWeek, cyc, calls, delivered, failedPairs,
                 runOnce>>

InitMain ==
  /\ now = Midday(FirstDay)
  /\ localZone \in Zones
  /\ season = "none"
  /\ impl = "part_001"
  /\ calendar \in Calendars
  /\ googleAuthed = FALSE
  /\ remindedDay = {}
  /\ remindedWeek = {}
  /\ cyc = [s \in Slots |-> IdleCycle]
  /\ calls = [p \in Pairs |-> 0]
  /\ delivered = [p \in Pairs |-> 0]
  /\ failedPairs = {}
  /\ lastLog = "start"
  /\ running = TRUE
  /\ runOnce \in BOOLEAN
  /\ mainPc = "start"
  /\ exitCode = Absent
  /\ serverStarted = FALSE

NextMain ==
  \/ MainRunOnce
  \/ MainExit
  \/ MainAlwaysOn
  \/ MainFails
  \/ TickWhenIdle
  \/ \E s \in Slots : AuthorizeOk(s)
  \/ \E s \in Slots : AuthorizeFail(s)
  \/ \E s \in Slots : ListOk(s)
  \/ \E s \in Slots : ListFail(s)
  \/ \E s \in Slots : SendOk(s)
  \/ \E s \in Slots : SendFail(s)

SpecMain == InitMain /\ [][NextMain]_vars

\* C19: in run-once mode no cron tick is scheduled and the health server is
\* not started; an invocation is started only by main at its start, so there
\* is exactly one; the process exits only from main's await of that
\* invocation, when the invocation has ended, and with status 0, a failed
\* fetch or delivery included.  A non-zero status is given only when main
\* fails, which is not in run-once mode.
C19_RunOnce ==
  /\ [](runOnce =>
          /\ ~serverStarted
          /\ mainPc # "scheduled"
          /\ lastLog # "checking"
          /\ \A s \in Slots \ {1} : ~Active(s)
          /\ (mainPc = "start" => NoneActive)
          /\ (exitCode # Absent => (mainPc = "exited" /\ exitCode = 0 /\ NoneActive)))
  /\ [](exitCode \notin {Absent, 0} => (~runOnce /\ lastLog = "fatal"))
  /\ [][runOnce =>
          /\ \A s \in Slots :
               (~Active(s) /\ cyc'[s].pc # "idle") => (mainPc = "start" /\ mainPc' = "awaitCycle")
          /\ (mainPc # "exited" /\ mainPc' = "exited") =>
               (mainPc = "awaitCycle" /\ NoneActive /\ exitCode' = 0 /\ ~running')]_vars

\* C19 witness: in run-once mode the one invocation has called
\* sendSlackReminder, the delivery has failed, and the process has exited
\* with status 0.
C19_Witness ==
  /\ runOnce
  /\ mainPc = "exited"
  /\ exitCode = 0
  /\ ~running
  /\ failedPairs # {}
  /\ \E p \in Pairs : calls[p] = 1

\* timed event e has in TZ the date that is DaysOf(th) days after the date of t
DueAt(e, th, t) ==
  /\ ~Malformed(e)
  /\ ~IsAllDay(e)
  /\ DateInTZ(e) = ymdInTZ(t) + DaysOf(th)

\* C20: the window asked of events.list is at least 8 days; for every
\* request in flight, every timed event whose date in TZ is today + 1 or
\* today + 7 starts within [timeMin, timeMin + window]; and when the fetch
\* returns, every such event, if the invocation's own date for the threshold
\* is that date and the pair is not recorded, is in the batch the invocation
\* goes on with.
C20_WindowCoversTargets ==
  /\ [](/\ LookAheadHours >= 8 * HoursPerDay
        /\ \A s \in Slots :
             cyc[s].pc = "list" =>
               \A e \in CalendarEvents : \A th \in Thresholds :
                 DueAt(e, th, cyc[s].timeMin) =>
                   /\ cyc[s].timeMin <= e.dateTime
                   /\ e.dateTime <= cyc[s].timeMin + LookAheadHours)
  /\ [][\A s \in Slots :
          (cyc[s].pc = "list" /\ Steps(s) /\ lastLog' = "fetched") =>
            \A e \in CalendarEvents : \A th \in Thresholds :
              ( /\ DueAt(e, th, now)
                /\ ymdInTZ(addDays(now, DaysOf(th))) = ymdInTZ(now) + DaysOf(th)
                /\ e.id \notin Ledger(th) )
              => /\ cyc'[s].pc # "idle"
                 /\ \E j \in 1 .. Len(cyc'[s].events) : cyc'[s].events[j] = e]_vars

\* C20 witness: a timed event whose date is today + 7 and that starts more
\* than seven days after the request was made has been fetched, and the
\* invocation waits for the delivery of its "1 week" reminder.
C20_Witness ==
  \E s \in Slots :
    /\ cyc[s].pc = "sendWeek"
    /\ ~IsAllDay(cyc[s].events[cyc[s].idx])
    /\ DateInTZ(cyc[s].events[cyc[s].idx]) = cyc[s].todayYMD + 7
    /\ cyc[s].events[cyc[s].idx].dateTime > cyc[s].timeMin + 7 * HoursPerDay

(***************************************************************************)
(* part_000: the implementation that compares the minutes left to the      *)
(* start of an event with a window.  In this section an instant is a       *)
(* number of minutes, now included; the process has no authorize step and  *)
(* no run-once mode; fetches and deliveries succeed, each invocation       *)
(* lasting at most MaxLatency minutes.                                     *)
(***************************************************************************)
WEEK_MIN == 7 * 24 * 60
DAY_MIN == 24 * 60
WINDOW_MIN == 10

\* cron.schedule("*/5 * * * *", ...): a tick at every minute divisible by 5
CronPeriod == 5

\* getUpcomingEvents(8 * 24 * 60)
LookAhead000 == 8 * 24 * 60

\* the longest an invocation is suspended between its tick and its end
MaxLatency == 6

\* (startTime.getTime() - now.getTime()) / (60 * 1000)
minutesToEvent(e, t) == e.dateTime - t

ThresholdMin(th) == IF th = "1 day" THEN DAY_MIN ELSE WEEK_MIN

\* minutesToEvent <= X_MIN && minutesToEvent > X_MIN - WINDOW_MIN
InWindow000(e, th, t) ==
  /\ minutesToEvent(e, t) <= ThresholdMin(th)
  /\ minutesToEvent(e, t) > ThresholdMin(th) - WINDOW_MIN

\* events.list({timeMin, timeMax}) of timed events that last an hour
ListedEvents000(t) ==
  SelectSeq(calendar,
            LAMBDA e : e.dateTime + 60 > t /\ e.dateTime < t + LookAhead000)

\* The for loop of part_000 from event i (at its "1 week" test when ph is
\* "week", at its "1 day" test when ph is "day"), now being t, up to the next
\* await.
RECURSIVE NextStop000(_, _, _, _, _, _)
NextStop000(evs, i, ph, t, rd, rw) ==
  IF i > Len(evs) THEN [pc |-> "idle", idx |-> 0]
  ELSE IF Malformed(evs[i]) THEN NextStop000(evs, i + 1, "week", t, rd, rw)
  ELSE IF minutesToEvent(evs[i], t) < 0
    THEN NextStop000(evs, i + 1, "week", t, rd, rw)
  ELSE IF ph = "week"
    THEN IF InWindow000(evs[i], "1 week", t) /\ evs[i].id \notin rw
         THEN [pc |-> "sendWeek", idx |-> i]
         ELSE NextStop000(evs, i, "day", t, rd, rw)
    ELSE IF InWindow000(evs[i], "1 day", t) /\ evs[i].id \notin rd
         THEN [pc |-> "sendDay", idx |-> i]
         ELSE NextStop000(evs, i + 1, "week", t, rd, rw)

RunLoop000(s, r, i, ph, rd, rw) ==
  LET stop == NextStop000(r.events, i, ph, r.loopNow, rd, rw)
  IN IF stop.pc = "idle"
     THEN /\ cyc' = [cyc EXCEPT ![s] = IdleCycle]
          /\ calls' = calls
     ELSE /\ cyc' = [cyc EXCEPT ![s] = [r EXCEPT !.pc = stop.pc, !.idx = stop.idx]]
          /\ calls' = Inc(calls, <<r.events[stop.idx].id, LabelOf(stop.pc)>>)

\* the events of the calendar: one timed event, at each phase of the cron
\* period, a week and a quarter of an hour after the process starts
Starts000 == {WEEK_MIN + 15 + ph : ph \in 0 .. (CronPeriod - 1)}

\* the last instant of the clock: the "1 day" window of every event is over
ClockEnd000 == WEEK_MIN + 15 + CronPeriod - DAY_MIN + WINDOW_MIN + MaxLatency

\* a minute may pass: no invocation is suspended longer than MaxLatency
MayPass ==
  /\ now + 1 <= ClockEnd000
  /\ \A s \in Slots : Active(s) => now + 1 - cyc[s].timeMin <= MaxLatency

\* a minute that is no cron minute passes
PassMinute ==
  /\ running
  /\ MayPass
  /\ (now + 1) % CronPeriod # 0
  /\ now' = now + 1
  /\ UNCHANGED mainVars
  /\ UNCHANGED <<localZone, season, impl, calendar, googleAuthed, remindedDay,
                 remindedWeek, cyc, calls, delivered, failedPairs, lastLog, running>>

\* the next cron minute comes: the callback starts an invocation, which reads
\* now and is suspended on events.list
Tick000(s) ==
  /\ running
  /\ mainPc = "scheduled"
  /\ MayPass
  /\ (now + 1) % CronPeriod = 0
  /\ ~Active(s)
  /\ \A t \in Slots : t < s => Active(t)
  /\ now' = now + 1
  /\ cyc' = [cyc EXCEPT ![s] = [IdleCycle EXCEPT !.pc = "list", !.timeMin = now + 1]]
  /\ lastLog' = "checking"
  /\ UNCHANGED mainVars
  /\ UNCHANGED <<localZone, season, impl, calendar, googleAuthed, remindedDay,
                 remindedWeek, calls, delivered, failedPairs, running>>

\* await calendar.events.list(...) resolves: now is read and the loop runs to
\* its first delivery
ListOk000(s) ==
  /\ running
  /\ cyc[s].pc = "list"
  /\ LET r == [cyc[s] EXCEPT !.events = ListedEvents000(cyc[s].timeMin),
                             !.loopNow = now]
     IN RunLoop000(s, r, 1, "week", remindedDay, remindedWeek)
  /\ lastLog' = "fetched"
  /\ UNCHANGED mainVars
  /\ UNCHANGED <<now, localZone, season, impl, calendar, googleAuthed,
                 remindedDay, remindedWeek, delivered, failedPairs, running>>

\* await sendSlackReminder(...) resolves: the id is added and the loop goes on
SendOk000(s) ==
  /\ running
  /\ Sending(s)
  /\ LET id == cyc[s].events[cyc[s].idx].id
         rd == IF cyc[s].pc = "sendDay" THEN remindedDay \cup {id} ELSE remindedDay
         rw == IF cyc[s].pc = "sendWeek" THEN remindedWeek \cup {id} ELSE remindedWeek
     IN /\ remindedDay' = rd
        /\ remindedWeek' = rw
        /\ delivered' = Inc(delivered, PairOf(s))
        /\ IF cyc[s].pc = "sendWeek"
           THEN RunLoop000(s, cyc[s], cyc[s].idx, "day", rd, rw)
           ELSE RunLoop000(s, cyc[s], cyc[s].idx + 1, "week", rd, rw)
  /\ lastLog' = "sent"
  /\ UNCHANGED mainVars
  /\ UNCHANGED <<now, localZone, season, impl, calendar, googleAuthed,
                 failedPairs, running>>

Init000 ==
  /\ now = 0
  /\ localZone = "UTC"
  /\ season = "none"
  /\ impl = "part_000"
  /\ calendar \in {<<Timed("a", t)>> : t \in Starts000}
  /\ googleAuthed = FALSE
  /\ remindedDay = {}
  /\ remindedWeek = {}
  /\ cyc = [s \in Slots |-> IdleCycle]
  /\ calls = [p \in Pairs |-> 0]
  /\ delivered = [p \in Pairs |-> 0]
  /\ failedPairs = {}
  /\ lastLog = "start"
  /\ running = TRUE
  /\ runOnce = FALSE
  /\ mainPc = "scheduled"
  /\ exitCode = Absent
  /\ serverStarted = TRUE

Next000 ==
  \/ PassMinute
  \/ \E s \in Slots : Tick000(s)
  \/ \E s \in Slots : ListOk000(s)
  \/ \E s \in Slots : SendOk000(s)

Spec000 == Init000 /\ [][Next000]_vars

\* the window of threshold th of event e is over at the present instant
WindowOver(e, th) == minutesToEvent(e, now) <= ThresholdMin(th) - WINDOW_MIN

\* C21: in part_000, with a tick every 5 minutes and every fetch and delivery
\* succeeding, the event gets exactly one "1 week" and exactly one "1 day"
\* reminder: no reminder is delivered twice, and once the window of a
\* threshold is over and no invocation is suspended, an invocation has
\* observed the event inside the window and its reminder has been delivered.
C21_TenMinuteWindowSafe ==
  \A e \in CalendarEvents : \A th \in Thresholds :
    /\ delivered[<<e.id, th>>] <= 1
    /\ (NoneActive /\ WindowOver(e, th)) => delivered[<<e.id, th>>] = 1

====
